---- MODULE Spec2Model ----
(***************************************************************************)
(* Model of the usePlaySync hook (src/src/hooks/usePlaySync.ts): one room  *)
(* member's playback synchronisation engine.  The hook's inputs (room      *)
(* context, content props, player reference) are changed by environment    *)
(* actions; every such change is a render after which the effects whose    *)
(* dependencies changed are cleaned up and set up again.  The handlers of  *)
(* the hook are operators from the state they read to the state they       *)
(* leave, applied by the actions that deliver a message, a player event or *)
(* a timer expiry.                                                         *)
(***************************************************************************)
EXTENDS Integers, Sequences, FiniteSets, TLC

VARIABLES
    sinceLastSync,    \* Date.now() - lastSyncTimeRef.current, in ms, counted
                      \* up to DebounceMs (every larger value acts alike)
    socket,           \* watchRoom.socket is present
    currentRoom,      \* watchRoom.currentRoom is present
    isOwner,          \* watchRoom.isOwner
    content,          \* videoId, videoUrl, currentEpisode, currentSource, metadata
    artPlayerRef,     \* artPlayerRef.current: Null or the player
    playerReady,      \* the playerReady prop
    socketListeners,  \* the five socket.on(...) handlers are registered
    playerListeners,  \* the three player.on(...) handlers are registered
    syncInterval,     \* the setInterval of the player effect: Null or [left],
                      \* the ms left until it expires
    timer,            \* the setTimeout of the owner effect: Null or
                      \* [left, content]
    events,           \* player lifecycle events waiting to be dispatched
    sent,             \* messages handed to watchRoom by the last step
    cmds,             \* commands issued to the player by the last step
    pushed,           \* router.push calls of the last step
    act,              \* the last step taken
    sinceSnapshot,    \* ms since the last watchRoom.updatePlayState call,
                      \* counted up to DebounceMs
    superseded,       \* the delay of the owner effect that is pending, or
                      \* that expired at this instant, replaced one that a
                      \* content change cancelled
    keyChange,        \* the delay of the owner effect that is pending, or
                      \* that expired at this instant, goes back to a change
                      \* of videoId, episode, source or url made as owner
    lastNotified,     \* "play" or "pause": the last notification sent by
                      \* the player listeners now registered, or "none"
    (* a room of members, each running the hook, joined by the transport *)
    rplayer,          \* member -> its player
    rsince,           \* member -> its sinceLastSync
    revents,          \* member -> its player's waiting events
    net,              \* <<sender, receiver>> -> messages in flight, in order
    elapsed,          \* ms since the members' heartbeat intervals fired
    due,              \* members whose heartbeat interval is due
    budget,           \* user actions still to come
    acted,            \* members whose user has acted on the player
    reported          \* members that have reported a player event

svars == <<sinceLastSync, socket, currentRoom, isOwner, content,
           artPlayerRef, playerReady, socketListeners, playerListeners,
           syncInterval, timer, events, sent, cmds, pushed, act,
           sinceSnapshot, superseded, keyChange, lastNotified>>

rvars == <<rplayer, rsince, revents, net, elapsed, due, budget, acted,
           reported>>

vars == <<svars, rvars>>

----------------------------------------------------------------------------
(* Bounds of the model *)

MaxPos == 3          \* player positions are 0..MaxPos seconds
MaxEvents == 2       \* player events waiting at one time
NumMembers == 2      \* members of the room
MaxQueue == 2        \* messages in flight from one member to another
MaxUserActs == 2     \* user actions in the room before the users stop

(* Constants of the program *)

DebounceMs == 1000
HeartbeatMs == 5000
ChangeDelayMs == 500
DriftTolerance == 2

(* The clock is watched at the grain of the shortest delay of the program *)
TickMs == ChangeDelayMs

Null == [null |-> TRUE]

Positions == 0..MaxPos

Abs(n) == IF n < 0 THEN -n ELSE n

Min(a, b) == IF a < b THEN a ELSE b

----------------------------------------------------------------------------
(* The content props of the hook *)

NoContent ==
    [videoId |-> "", videoUrl |-> "", currentEpisode |-> 1,
     currentSource |-> "s1", videoName |-> "", videoYear |-> "",
     searchTitle |-> ""]

ContentA ==
    [videoId |-> "v1", videoUrl |-> "u1", currentEpisode |-> 1,
     currentSource |-> "s1", videoName |-> "n1", videoYear |-> "",
     searchTitle |-> ""]

ContentB ==
    [videoId |-> "v1", videoUrl |-> "u2", currentEpisode |-> 2,
     currentSource |-> "s1", videoName |-> "n1", videoYear |-> "",
     searchTitle |-> ""]

ContentMeta ==
    [videoId |-> "v1", videoUrl |-> "u1", currentEpisode |-> 1,
     currentSource |-> "s1", videoName |-> "n2", videoYear |-> "y2",
     searchTitle |-> ""]

Contents == {NoContent, ContentA, ContentB, ContentMeta}

(* what identifies the content: videoId, episode, source and url *)
Keys(c) == <<c.videoId, c.currentEpisode, c.currentSource, c.videoUrl>>

(* The PlayState record built at lines 49-60 and 292-303 *)
PlayState(c, time, playing) ==
    [type |-> "play", url |-> c.videoUrl, currentTime |-> time,
     isPlaying |-> playing, videoId |-> c.videoId, videoName |-> c.videoName,
     videoYear |-> c.videoYear, searchTitle |-> c.searchTitle,
     episode |-> c.currentEpisode, source |-> c.currentSource]

isInRoom == currentRoom

----------------------------------------------------------------------------
(* The media player: paused, currentTime, play(), pause(), and the events  *)
(* play, pause and seeked it emits when its state changes.                 *)

NewPlayer == [paused |-> TRUE, currentTime |-> 0]

(* play(): a fallible outcome; a rejected play leaves the player paused *)
PlayerPlay(p, ok) ==
    [player |-> IF ok THEN [p EXCEPT !.paused = FALSE] ELSE p,
     events |-> IF ok THEN <<"play">> ELSE <<>>]

PlayerPause(p) ==
    [player |-> [p EXCEPT !.paused = TRUE],
     events |-> <<"pause">>]

PlayerSeek(p, t) ==
    [player |-> [p EXCEPT !.currentTime = t],
     events |-> <<"seeked">>]

----------------------------------------------------------------------------
(* broadcastPlayState, lines 43-68: what it sends and the ms since         *)
(* lastSyncTimeRef it leaves; since is now - lastSyncTimeRef.current, and  *)
(* lastSyncTimeRef.current = now leaves 0.                                 *)

(* mutant: the debounce test of line 64 is missing *)
broadcastPlayState_NoDebounce(sock, room, player, c, since) ==
    IF ~sock \/ ~room
    THEN [sent |-> <<>>, since |-> since]
    ELSE IF player = Null
    THEN [sent |-> <<>>, since |-> since]
    ELSE [sent |-> <<[topic |-> "play:update",
                      state |-> PlayState(c, player.currentTime,
                                          ~player.paused)]>>,
          since |-> 0]

(* mutant: lines 64 and 65 are exchanged: a suppressed attempt sets the ref *)
broadcastPlayState_StampsSuppressed(sock, room, player, c, since) ==
    IF ~sock \/ ~room
    THEN [sent |-> <<>>, since |-> since]
    ELSE IF player = Null
    THEN [sent |-> <<>>, since |-> since]
    ELSE IF since < DebounceMs
    THEN [sent |-> <<>>, since |-> 0]
    ELSE [sent |-> <<[topic |-> "play:update",
                      state |-> PlayState(c, player.currentTime,
                                          ~player.paused)]>>,
          since |-> 0]

(* mutant: the snapshot reports the player as playing whatever its state *)
broadcastPlayState_StalePlaying(sock, room, player, c, since) ==
    IF ~sock \/ ~room
    THEN [sent |-> <<>>, since |-> since]
    ELSE IF player = Null
    THEN [sent |-> <<>>, since |-> since]
    ELSE IF since < DebounceMs
    THEN [sent |-> <<>>, since |-> since]
    ELSE [sent |-> <<[topic |-> "play:update",
                      state |-> PlayState(c, player.currentTime, TRUE)]>>,
          since |-> 0]

broadcastPlayState(sock, room, player, c, since) ==
    IF ~sock \/ ~room
    THEN [sent |-> <<>>, since |-> since]
    ELSE IF player = Null
    THEN [sent |-> <<>>, since |-> since]
    ELSE IF since < DebounceMs
    THEN [sent |-> <<>>, since |-> since]
    ELSE [sent |-> <<[topic |-> "play:update",
                      state |-> PlayState(c, player.currentTime,
                                          ~player.paused)]>>,
          since |-> 0]

----------------------------------------------------------------------------
(* The handlers of the transport effect, lines 79-186.  Each gives the     *)
(* player it leaves, the events the player emits, and the commands issued. *)
(* ok is the outcome of player.play() should the handler call it.          *)

Untouched(player) == [player |-> player, events |-> <<>>, cmds |-> <<>>]

Issued(r, c) == [player |-> r.player, events |-> r.events, cmds |-> c]

(* mutant: play or pause is commanded without looking at the local state *)
handlePlayUpdate_AlwaysCommand(player, state, ok) ==
    IF player = Null
    THEN Untouched(player)
    ELSE LET r1 == IF state.isPlaying
                   THEN Issued(PlayerPlay(player, ok), <<[op |-> "play"]>>)
                   ELSE Issued(PlayerPause(player), <<[op |-> "pause"]>>)
             timeDiff == Abs(r1.player.currentTime - state.currentTime)
             r2 == IF timeDiff > DriftTolerance
                   THEN Issued(PlayerSeek(r1.player, state.currentTime),
                               <<[op |-> "seek", to |-> state.currentTime]>>)
                   ELSE Untouched(r1.player)
         IN  [player |-> r2.player,
              events |-> r1.events \o r2.events,
              cmds |-> r1.cmds \o r2.cmds]

(* mutant: a gap of exactly the tolerance seeks *)
handlePlayUpdate_SeekAtTolerance(player, state, ok) ==
    IF player = Null
    THEN Untouched(player)
    ELSE LET r1 == IF state.isPlaying /\ player.paused
                   THEN Issued(PlayerPlay(player, ok), <<[op |-> "play"]>>)
                   ELSE IF ~state.isPlaying /\ ~player.paused
                   THEN Issued(PlayerPause(player), <<[op |-> "pause"]>>)
                   ELSE Untouched(player)
             timeDiff == Abs(r1.player.currentTime - state.currentTime)
             r2 == IF timeDiff >= DriftTolerance
                   THEN Issued(PlayerSeek(r1.player, state.currentTime),
                               <<[op |-> "seek", to |-> state.currentTime]>>)
                   ELSE Untouched(r1.player)
         IN  [player |-> r2.player,
              events |-> r1.events \o r2.events,
              cmds |-> r1.cmds \o r2.cmds]

(* mutant: a rejected play() ends the handler before the position check *)
handlePlayUpdate_RejectionReturns(player, state, ok) ==
    IF player = Null
    THEN Untouched(player)
    ELSE LET r1 == IF state.isPlaying /\ player.paused
                   THEN Issued(PlayerPlay(player, ok), <<[op |-> "play"]>>)
                   ELSE IF ~state.isPlaying /\ ~player.paused
                   THEN Issued(PlayerPause(player), <<[op |-> "pause"]>>)
                   ELSE Untouched(player)
             timeDiff == Abs(r1.player.currentTime - state.currentTime)
             r2 == IF timeDiff > DriftTolerance
                      /\ ~(state.isPlaying /\ player.paused /\ ~ok)
                   THEN Issued(PlayerSeek(r1.player, state.currentTime),
                               <<[op |-> "seek", to |-> state.currentTime]>>)
                   ELSE Untouched(r1.player)
         IN  [player |-> r2.player,
              events |-> r1.events \o r2.events,
              cmds |-> r1.cmds \o r2.cmds]

handlePlayUpdate(player, state, ok) ==
    IF player = Null
    THEN Untouched(player)
    ELSE LET r1 == IF state.isPlaying /\ player.paused
                   THEN Issued(PlayerPlay(player, ok), <<[op |-> "play"]>>)
                   ELSE IF ~state.isPlaying /\ ~player.paused
                   THEN Issued(PlayerPause(player), <<[op |-> "pause"]>>)
                   ELSE Untouched(player)
             timeDiff == Abs(r1.player.currentTime - state.currentTime)
             r2 == IF timeDiff > DriftTolerance
                   THEN Issued(PlayerSeek(r1.player, state.currentTime),
                               <<[op |-> "seek", to |-> state.currentTime]>>)
                   ELSE Untouched(r1.player)
         IN  [player |-> r2.player,
              events |-> r1.events \o r2.events,
              cmds |-> r1.cmds \o r2.cmds]

(* mutant: play() is called whether or not the player is paused *)
handlePlayCommand_Always(player, ok) ==
    IF player = Null
    THEN Untouched(player)
    ELSE Issued(PlayerPlay(player, ok), <<[op |-> "play"]>>)

handlePlayCommand(player, ok) ==
    IF player = Null
    THEN Untouched(player)
    ELSE IF player.paused
    THEN Issued(PlayerPlay(player, ok), <<[op |-> "play"]>>)
    ELSE Untouched(player)

handlePauseCommand(player) ==
    IF player = Null
    THEN Untouched(player)
    ELSE IF ~player.paused
    THEN Issued(PlayerPause(player), <<[op |-> "pause"]>>)
    ELSE Untouched(player)

(* mutant: the player test of lines 156-159 is missing *)
handleSeekCommand_NoPlayerTest(player, currentTime) ==
    IF player = Null
    THEN [player |-> player, events |-> <<>>,
          cmds |-> <<[op |-> "seek", to |-> currentTime]>>]
    ELSE Issued(PlayerSeek(player, currentTime),
                <<[op |-> "seek", to |-> currentTime]>>)

handleSeekCommand(player, currentTime) ==
    IF player = Null
    THEN Untouched(player)
    ELSE Issued(PlayerSeek(player, currentTime),
                <<[op |-> "seek", to |-> currentTime]>>)

(* handleChangeCommand: the query parameters of the router.push url, in    *)
(* the order URLSearchParams holds them; String(state.episode || 1).       *)
handleChangeCommand(state) ==
    <<<<"id", state.videoId>>, <<"source", state.source>>,
      <<"episode", IF state.episode = 0 THEN 1 ELSE state.episode>>>>
    \o (IF state.videoName # "" THEN <<<<"title", state.videoName>>>> ELSE <<>>)
    \o (IF state.videoYear # "" THEN <<<<"year", state.videoYear>>>> ELSE <<>>)
    \o (IF state.searchTitle # ""
        THEN <<<<"stitle", state.searchTitle>>>> ELSE <<>>)

----------------------------------------------------------------------------
(* The handlers of the player effect, lines 226-272, and the timer of the  *)
(* owner effect, lines 291-307: what they send and the ms since            *)
(* lastSyncTimeRef they leave.                                             *)

Silent(since) == [sent |-> <<>>, since |-> since]

(* mutant: the test of line 231 is missing: a play event is not confirmed *)
handlePlay_Unconfirmed(sock, room, player, c, since) ==
    IF player = Null
    THEN Silent(since)
    ELSE LET b == broadcastPlayState(sock, room, player, c, since)
         IN  [sent |-> <<[topic |-> "play:play"]>> \o b.sent,
              since |-> b.since]

handlePlay(sock, room, player, c, since) ==
    IF player = Null
    THEN Silent(since)
    ELSE IF ~player.paused
    THEN LET b == broadcastPlayState(sock, room, player, c, since)
         IN  [sent |-> <<[topic |-> "play:play"]>> \o b.sent,
              since |-> b.since]
    ELSE Silent(since)

(* mutant: the pause notification is sent only with the snapshot *)
handlePause_DebouncedNotice(sock, room, player, c, since) ==
    IF player = Null
    THEN Silent(since)
    ELSE IF player.paused
    THEN LET b == broadcastPlayState(sock, room, player, c, since)
         IN  [sent |-> IF b.sent = <<>>
                       THEN <<>>
                       ELSE <<[topic |-> "play:pause"]>> \o b.sent,
              since |-> b.since]
    ELSE Silent(since)

handlePause(sock, room, player, c, since) ==
    IF player = Null
    THEN Silent(since)
    ELSE IF player.paused
    THEN LET b == broadcastPlayState(sock, room, player, c, since)
         IN  [sent |-> <<[topic |-> "play:pause"]>> \o b.sent,
              since |-> b.since]
    ELSE Silent(since)

(* mutant: the seek report is subject to the debounce and sets the ref *)
handleSeeked_Debounced(player, since) ==
    IF player = Null
    THEN Silent(since)
    ELSE IF since < DebounceMs
    THEN Silent(since)
    ELSE [sent |-> <<[topic |-> "play:seek",
                      currentTime |-> player.currentTime]>>,
          since |-> 0]

handleSeeked(player, since) ==
    IF player = Null
    THEN Silent(since)
    ELSE [sent |-> <<[topic |-> "play:seek",
                      currentTime |-> player.currentTime]>>,
          since |-> since]

(* mutant: the paused test of line 268 is missing *)
syncIntervalTick_IgnorePaused(sock, room, player, c, since) ==
    broadcastPlayState(sock, room, player, c, since)

(* mutant: the heartbeat sends without the debounce test of line 64 *)
syncIntervalTick_NoDebounce(sock, room, player, c, since) ==
    IF player.paused
    THEN Silent(since)
    ELSE broadcastPlayState_NoDebounce(sock, room, player, c, since)

syncIntervalTick(sock, room, player, c, since) ==
    IF player.paused
    THEN Silent(since)
    ELSE broadcastPlayState(sock, room, player, c, since)

changeTimerFired(player, c) ==
    <<[topic |-> "play:change",
       state |-> PlayState(c,
                           IF player = Null THEN 0 ELSE player.currentTime,
                           IF player = Null THEN FALSE ELSE ~player.paused)]>>

----------------------------------------------------------------------------
(* The three effects: what a run of each leaves registered.  An effect     *)
(* runs again, after its cleanup, when one of its dependencies changed.    *)

(* mutant: the cleanup of lines 196-203 is missing *)
TransportEffect_NoCleanup(sock, room) == socketListeners \/ (sock /\ room)

(* lines 71-204: the socket listeners *)
TransportEffect(sock, room) == sock /\ room

(* lines 207-283: the player listeners and the heartbeat interval *)
PlayerEffect(sock, room, ready, player) ==
    IF sock /\ room /\ ready /\ player # Null
    THEN [left |-> HeartbeatMs]
    ELSE Null

(* mutant: the isOwner test of line 287 is missing *)
OwnerEffect_AnyMember(owner, sock, room, c) ==
    IF sock /\ room /\ c.videoId # "" /\ c.videoUrl # ""
    THEN [left |-> ChangeDelayMs, content |-> c]
    ELSE Null

(* mutant: the cleanup of line 309 is missing while a delay is pending *)
OwnerEffect_NoRestart(owner, sock, room, c) ==
    IF owner /\ sock /\ room /\ c.videoId # "" /\ c.videoUrl # ""
    THEN IF timer # Null THEN timer ELSE [left |-> ChangeDelayMs, content |-> c]
    ELSE Null

(* lines 286-310: the delayed play:change of the owner *)
OwnerEffect(owner, sock, room, c) ==
    IF owner /\ sock /\ room /\ c.videoId # "" /\ c.videoUrl # ""
    THEN [left |-> ChangeDelayMs, content |-> c]
    ELSE Null

(* A step that sends nothing, commands nothing and navigates nowhere *)
NoOutput ==
    /\ sent' = <<>>
    /\ cmds' = <<>>
    /\ pushed' = <<>>

(* A render with a new room context value: every effect depends on it *)
RoomUpdate(sock, room, owner) ==
    /\ socket' = sock
    /\ currentRoom' = room
    /\ isOwner' = owner
    /\ socketListeners' = TransportEffect(sock, room)
    /\ syncInterval' = PlayerEffect(sock, room, playerReady, artPlayerRef)
    /\ playerListeners' = (syncInterval' # Null)
    /\ timer' = OwnerEffect(owner, sock, room, content)
    /\ superseded' = (superseded /\ timer # Null /\ timer' # Null)
    /\ keyChange' = (keyChange /\ timer # Null /\ timer' # Null)
    /\ lastNotified' = IF playerListeners' THEN lastNotified ELSE "none"
    /\ NoOutput
    /\ UNCHANGED <<sinceLastSync, content, artPlayerRef, playerReady,
                   events, sinceSnapshot>>

----------------------------------------------------------------------------
(* The environment of the hook: room membership, content, player, clock *)

Members == 1..NumMembers

Links == {l \in Members \X Members : l[1] # l[2]}

Init ==
    /\ sinceLastSync = DebounceMs
    /\ socket = FALSE
    /\ currentRoom = FALSE
    /\ isOwner = FALSE
    /\ content = NoContent
    /\ artPlayerRef = Null
    /\ playerReady = FALSE
    /\ socketListeners = FALSE
    /\ playerListeners = FALSE
    /\ syncInterval = Null
    /\ timer = Null
    /\ events = <<>>
    /\ sent = <<>>
    /\ cmds = <<>>
    /\ pushed = <<>>
    /\ act = "Init"
    /\ sinceSnapshot = DebounceMs
    /\ superseded = FALSE
    /\ keyChange = FALSE
    /\ lastNotified = "none"
    /\ rplayer = [m \in Members |-> NewPlayer]
    /\ rsince = [m \in Members |-> DebounceMs]
    /\ revents = [m \in Members |-> <<>>]
    /\ net = [l \in Links |-> <<>>]
    /\ elapsed = 0
    /\ due = {}
    /\ budget = MaxUserActs
    /\ acted = {}
    /\ reported = {}

Connect ==
    /\ ~socket
    /\ RoomUpdate(TRUE, currentRoom, isOwner)
    /\ act' = "Connect"
    /\ UNCHANGED rvars

Disconnect ==
    /\ socket
    /\ RoomUpdate(FALSE, currentRoom, isOwner)
    /\ act' = "Disconnect"
    /\ UNCHANGED rvars

JoinRoom(owner) ==
    /\ ~currentRoom
    /\ RoomUpdate(socket, TRUE, owner)
    /\ act' = "JoinRoom"
    /\ UNCHANGED rvars

LeaveRoom ==
    /\ currentRoom
    /\ RoomUpdate(socket, FALSE, FALSE)
    /\ act' = "LeaveRoom"
    /\ UNCHANGED rvars

OwnerChange ==
    /\ currentRoom
    /\ RoomUpdate(socket, currentRoom, ~isOwner)
    /\ act' = "OwnerChange"
    /\ UNCHANGED rvars

(* the provider renders a new context value with the same fields *)
ContextRefresh ==
    /\ currentRoom
    /\ RoomUpdate(socket, currentRoom, isOwner)
    /\ act' = "ContextRefresh"
    /\ UNCHANGED rvars

(* videoId, videoUrl, currentEpisode, currentSource or the metadata change: *)
(* broadcastPlayState is a new callback, so the player effect runs again,  *)
(* and so does the owner effect.                                           *)
ContentChange(c) ==
    /\ c # content
    /\ content' = c
    /\ syncInterval' = PlayerEffect(socket, currentRoom, playerReady,
                                    artPlayerRef)
    /\ playerListeners' = (syncInterval' # Null)
    /\ timer' = OwnerEffect(isOwner, socket, currentRoom, c)
    /\ superseded' = (timer # Null /\ timer' # Null)
    /\ keyChange' = /\ timer' # Null
                    /\ \/ Keys(c) # Keys(content)
                       \/ keyChange /\ timer # Null
    /\ NoOutput
    /\ act' = "ContentChange"
    /\ UNCHANGED rvars
    /\ lastNotified' = IF playerListeners' THEN lastNotified ELSE "none"
    /\ UNCHANGED <<sinceLastSync, socket, currentRoom, isOwner,
                   artPlayerRef, playerReady, socketListeners, events,
                   sinceSnapshot>>

PlayerCreate ==
    /\ artPlayerRef = Null
    /\ artPlayerRef' = NewPlayer
    /\ NoOutput
    /\ act' = "PlayerCreate"
    /\ UNCHANGED rvars
    /\ UNCHANGED lastNotified
    /\ UNCHANGED <<sinceLastSync, socket, currentRoom, isOwner, content,
                   playerReady, socketListeners, playerListeners, syncInterval,
                   timer, events, sinceSnapshot, superseded,
                   keyChange>>

PlayerReady ==
    /\ artPlayerRef # Null
    /\ ~playerReady
    /\ playerReady' = TRUE
    /\ syncInterval' = PlayerEffect(socket, currentRoom, TRUE, artPlayerRef)
    /\ playerListeners' = (syncInterval' # Null)
    /\ NoOutput
    /\ act' = "PlayerReady"
    /\ UNCHANGED rvars
    /\ lastNotified' = IF playerListeners' THEN lastNotified ELSE "none"
    /\ UNCHANGED <<sinceLastSync, socket, currentRoom, isOwner, content,
                   artPlayerRef, socketListeners, timer, events,
                   sinceSnapshot, superseded,
                   keyChange>>

PlayerTeardown ==
    /\ artPlayerRef # Null
    /\ artPlayerRef' = Null
    /\ playerReady' = FALSE
    /\ events' = <<>>
    /\ syncInterval' = Null
    /\ playerListeners' = FALSE
    /\ NoOutput
    /\ act' = "PlayerTeardown"
    /\ UNCHANGED rvars
    /\ lastNotified' = IF playerListeners' THEN lastNotified ELSE "none"
    /\ UNCHANGED <<sinceLastSync, socket, currentRoom, isOwner, content,
                   socketListeners, timer, sinceSnapshot, superseded,
                   keyChange>>

(* The user acts on the player; the player emits the event *)
UserAction(r, name) ==
    /\ Len(events) + Len(r.events) <= MaxEvents
    /\ artPlayerRef' = r.player
    /\ events' = events \o r.events
    /\ NoOutput
    /\ act' = name
    /\ UNCHANGED rvars
    /\ UNCHANGED lastNotified
    /\ UNCHANGED <<sinceLastSync, socket, currentRoom, isOwner, content,
                   playerReady, socketListeners, playerListeners, syncInterval,
                   timer, sinceSnapshot, superseded,
                   keyChange>>

UserPlay ==
    /\ artPlayerRef # Null
    /\ artPlayerRef.paused
    /\ UserAction(PlayerPlay(artPlayerRef, TRUE), "UserPlay")

UserPause ==
    /\ artPlayerRef # Null
    /\ ~artPlayerRef.paused
    /\ UserAction(PlayerPause(artPlayerRef), "UserPause")

UserSeek(t) ==
    /\ artPlayerRef # Null
    /\ UserAction(PlayerSeek(artPlayerRef, t), "UserSeek")

(* Playback moves the position on *)
Advance ==
    /\ artPlayerRef # Null
    /\ ~artPlayerRef.paused
    /\ artPlayerRef.currentTime < MaxPos
    /\ artPlayerRef' = [artPlayerRef EXCEPT !.currentTime = @ + 1]
    /\ NoOutput
    /\ act' = "Advance"
    /\ UNCHANGED rvars
    /\ UNCHANGED lastNotified
    /\ UNCHANGED <<sinceLastSync, socket, currentRoom, isOwner, content,
                   playerReady, socketListeners, playerListeners, syncInterval,
                   timer, events, sinceSnapshot, superseded,
                   keyChange>>

(* The clock moves on by at most TickMs, and no further than the next     *)
(* expiry of a timer; a waiting player event is dispatched first.          *)
Lefts ==
    (IF syncInterval # Null THEN {syncInterval.left} ELSE {})
    \cup (IF timer # Null THEN {timer.left} ELSE {})

Elapse(since, d) == Min(since + d, DebounceMs)

Tick ==
    /\ events = <<>>
    /\ \A l \in Lefts : l > 0
    /\ LET stops == {TickMs} \cup Lefts
           d == CHOOSE t \in stops : \A u \in stops : t <= u
       IN  /\ sinceLastSync' = Elapse(sinceLastSync, d)
           /\ sinceSnapshot' = Elapse(sinceSnapshot, d)
           /\ syncInterval' = IF syncInterval = Null
                              THEN Null
                              ELSE [left |-> syncInterval.left - d]
           /\ timer' = IF timer = Null
                       THEN Null
                       ELSE [timer EXCEPT !.left = @ - d]
    /\ superseded' = (superseded /\ timer # Null)
    /\ keyChange' = (keyChange /\ timer # Null)
    /\ NoOutput
    /\ act' = "Tick"
    /\ UNCHANGED rvars
    /\ UNCHANGED lastNotified
    /\ UNCHANGED <<socket, currentRoom, isOwner, content, artPlayerRef,
                   playerReady, socketListeners, playerListeners, events>>

----------------------------------------------------------------------------
(* The hook's own steps *)

Topics(msgs) == {msgs[i].topic : i \in 1..Len(msgs)}

(* An inbound message of the transport: the handler runs if registered *)
Deliver(r, a) ==
    /\ Len(events) + Len(r.events) <= MaxEvents
    /\ artPlayerRef' = r.player
    /\ events' = events \o r.events
    /\ cmds' = r.cmds
    /\ sent' = <<>>
    /\ pushed' = <<>>
    /\ act' = a
    /\ UNCHANGED rvars
    /\ UNCHANGED lastNotified
    /\ UNCHANGED <<sinceLastSync, socket, currentRoom, isOwner, content,
                   playerReady, socketListeners, playerListeners, syncInterval,
                   timer, sinceSnapshot, superseded,
                   keyChange>>

(* the outcome of play() is an input only where the handler calls play() *)
PlayOutcomes(r) ==
    IF [op |-> "play"] \in {r.cmds[i] : i \in 1..Len(r.cmds)}
    THEN BOOLEAN
    ELSE {TRUE}

OnPlayUpdate(state) ==
    \E ok \in PlayOutcomes(handlePlayUpdate(artPlayerRef, state, TRUE)) :
        Deliver(IF socketListeners
                THEN handlePlayUpdate(artPlayerRef, state, ok)
                ELSE Untouched(artPlayerRef),
                "play:update")

OnPlayCommand ==
    \E ok \in PlayOutcomes(handlePlayCommand(artPlayerRef, TRUE)) :
        Deliver(IF socketListeners
                THEN handlePlayCommand(artPlayerRef, ok)
                ELSE Untouched(artPlayerRef),
                "play:play")

OnPauseCommand ==
    LET r == IF socketListeners
             THEN handlePauseCommand(artPlayerRef)
             ELSE Untouched(artPlayerRef)
    IN  Deliver(r, "play:pause")

OnSeekCommand(currentTime) ==
    LET r == IF socketListeners
             THEN handleSeekCommand(artPlayerRef, currentTime)
             ELSE Untouched(artPlayerRef)
    IN  Deliver(r, "play:seek")

OnChangeCommand(state) ==
    /\ pushed' = IF socketListeners
                 THEN <<handleChangeCommand(state)>>
                 ELSE <<>>
    /\ sent' = <<>>
    /\ cmds' = <<>>
    /\ act' = "play:change"
    /\ UNCHANGED rvars
    /\ UNCHANGED lastNotified
    /\ UNCHANGED <<sinceLastSync, socket, currentRoom, isOwner, content,
                   artPlayerRef, playerReady, socketListeners, playerListeners,
                   syncInterval, timer, events, sinceSnapshot, superseded,
                   keyChange>>

(* A step that may send: b is what a handler of the player effect returns *)
Send(b) ==
    /\ sent' = b.sent
    /\ sinceLastSync' = b.since
    /\ sinceSnapshot' = IF "play:update" \in Topics(b.sent)
                        THEN 0
                        ELSE sinceSnapshot
    /\ lastNotified' = IF "play:play" \in Topics(b.sent) THEN "play"
                       ELSE IF "play:pause" \in Topics(b.sent) THEN "pause"
                       ELSE lastNotified
    /\ cmds' = <<>>
    /\ pushed' = <<>>

(* The player dispatches its next event to the listener, if registered *)
PlayerEvent(kind, b) ==
    /\ events # <<>>
    /\ Head(events) = kind
    /\ events' = Tail(events)
    /\ Send(IF playerListeners THEN b ELSE Silent(sinceLastSync))
    /\ act' = kind
    /\ UNCHANGED rvars
    /\ UNCHANGED <<socket, currentRoom, isOwner, content, artPlayerRef,
                   playerReady, socketListeners, playerListeners, syncInterval,
                   timer, superseded,
                   keyChange>>

OnPlay ==
    LET b == handlePlay(socket, currentRoom, artPlayerRef, content,
                        sinceLastSync)
    IN  PlayerEvent("play", b)

OnPause ==
    LET b == handlePause(socket, currentRoom, artPlayerRef, content,
                         sinceLastSync)
    IN  PlayerEvent("pause", b)

OnSeeked ==
    LET b == handleSeeked(artPlayerRef, sinceLastSync)
    IN  PlayerEvent("seeked", b)

(* The heartbeat: the interval expires and is due again 5000 ms later *)
IntervalTick ==
    /\ syncInterval # Null
    /\ syncInterval.left = 0
    /\ syncInterval' = [left |-> HeartbeatMs]
    /\ Send(syncIntervalTick(socket, currentRoom, artPlayerRef, content,
                             sinceLastSync))
    /\ act' = "IntervalTick"
    /\ UNCHANGED rvars
    /\ UNCHANGED <<socket, currentRoom, isOwner, content, artPlayerRef,
                   playerReady, socketListeners, playerListeners, timer,
                   events, superseded,
                   keyChange>>

(* The delay of the owner effect expires *)
TimerFire ==
    /\ timer # Null
    /\ timer.left = 0
    /\ timer' = Null
    /\ sent' = changeTimerFired(artPlayerRef, timer.content)
    /\ cmds' = <<>>
    /\ pushed' = <<>>
    /\ act' = "TimerFire"
    /\ UNCHANGED rvars
    /\ UNCHANGED lastNotified
    /\ UNCHANGED <<sinceLastSync, socket, currentRoom, isOwner, content,
                   artPlayerRef, playerReady, socketListeners, playerListeners,
                   syncInterval, events, sinceSnapshot, superseded,
                   keyChange>>

(* The application calls the exported broadcastPlayState *)
ManualBroadcast ==
    /\ Send(broadcastPlayState(socket, currentRoom, artPlayerRef, content,
                               sinceLastSync))
    /\ act' = "ManualBroadcast"
    /\ UNCHANGED rvars
    /\ UNCHANGED <<socket, currentRoom, isOwner, content, artPlayerRef,
                   playerReady, socketListeners, playerListeners, syncInterval,
                   timer, events, superseded,
                   keyChange>>

----------------------------------------------------------------------------
(* Inbound messages the transport may deliver *)

(* positions that lie at every distance 0..MaxPos from some local position *)
InboundPositions == {0, MaxPos}

InboundUpdates ==
    {PlayState(ContentA, t, p) : t \in InboundPositions, p \in BOOLEAN}

InboundChanges == {PlayState(c, 0, FALSE) : c \in {ContentB, ContentMeta}}

Next ==
    \/ Connect
    \/ Disconnect
    \/ \E owner \in BOOLEAN : JoinRoom(owner)
    \/ LeaveRoom
    \/ OwnerChange
    \/ ContextRefresh
    \/ \E c \in Contents : ContentChange(c)
    \/ PlayerCreate
    \/ PlayerReady
    \/ PlayerTeardown
    \/ UserPlay
    \/ UserPause
    \/ \E t \in Positions : UserSeek(t)
    \/ Advance
    \/ Tick
    \/ \E state \in InboundUpdates : OnPlayUpdate(state)
    \/ OnPlayCommand
    \/ OnPauseCommand
    \/ \E t \in InboundPositions : OnSeekCommand(t)
    \/ \E state \in InboundChanges : OnChangeCommand(state)
    \/ OnPlay
    \/ OnPause
    \/ OnSeeked
    \/ IntervalTick
    \/ TimerFire
    \/ ManualBroadcast

Spec == Init /\ [][Next]_vars

----------------------------------------------------------------------------
(* A room: every member is in the room, not its owner, with a ready player *)
(* on ContentA, and runs the handlers above.  What a member sends, the     *)
(* transport delivers to every other member, in order per sender.  The     *)
(* members' player effects ran at the same instant, so their heartbeat     *)
(* intervals fall due together.                                            *)

Broadcast(m, msgs) ==
    [l \in Links |-> IF l[1] = m THEN net[l] \o msgs ELSE net[l]]

RoomUser(m, r) ==
    /\ budget > 0
    /\ Len(revents[m]) + Len(r.events) <= MaxEvents
    /\ rplayer' = [rplayer EXCEPT ![m] = r.player]
    /\ revents' = [revents EXCEPT ![m] = @ \o r.events]
    /\ budget' = budget - 1
    /\ acted' = acted \cup {m}
    /\ UNCHANGED <<rsince, net, elapsed, due, reported>>
    /\ UNCHANGED svars

RoomUserPlay(m) ==
    /\ rplayer[m].paused
    /\ RoomUser(m, PlayerPlay(rplayer[m], TRUE))

RoomUserPause(m) ==
    /\ ~rplayer[m].paused
    /\ RoomUser(m, PlayerPause(rplayer[m]))

RoomUserSeek(m, t) ==
    /\ t # rplayer[m].currentTime
    /\ RoomUser(m, PlayerSeek(rplayer[m], t))

(* the player of m dispatches its next event to the listener *)
RoomDispatch(m) ==
    /\ revents[m] # <<>>
    /\ LET kind == Head(revents[m])
           b == IF kind = "play"
                THEN handlePlay(TRUE, TRUE, rplayer[m], ContentA, rsince[m])
                ELSE IF kind = "pause"
                THEN handlePause(TRUE, TRUE, rplayer[m], ContentA, rsince[m])
                ELSE handleSeeked(rplayer[m], rsince[m])
       IN  /\ \A l \in Links :
                l[1] = m => Len(net[l]) + Len(b.sent) <= MaxQueue
           /\ net' = Broadcast(m, b.sent)
           /\ rsince' = [rsince EXCEPT ![m] = b.since]
           /\ reported' = IF b.sent = <<>> THEN reported
                          ELSE reported \cup {m}
    /\ revents' = [revents EXCEPT ![m] = Tail(@)]
    /\ UNCHANGED <<rplayer, elapsed, due, budget, acted>>
    /\ UNCHANGED svars

(* the transport delivers the next message of s to r; play() is accepted *)
RoomDeliver(s, r) ==
    /\ net[<<s, r>>] # <<>>
    /\ LET m == Head(net[<<s, r>>])
           h == IF m.topic = "play:update"
                THEN handlePlayUpdate(rplayer[r], m.state, TRUE)
                ELSE IF m.topic = "play:play"
                THEN handlePlayCommand(rplayer[r], TRUE)
                ELSE IF m.topic = "play:pause"
                THEN handlePauseCommand(rplayer[r])
                ELSE handleSeekCommand(rplayer[r], m.currentTime)
       IN  /\ Len(revents[r]) + Len(h.events) <= MaxEvents
           /\ rplayer' = [rplayer EXCEPT ![r] = h.player]
           /\ revents' = [revents EXCEPT ![r] = @ \o h.events]
    /\ net' = [net EXCEPT ![<<s, r>>] = Tail(@)]
    /\ UNCHANGED <<rsince, elapsed, due, budget, acted, reported>>
    /\ UNCHANGED svars

(* the heartbeat interval of m fires *)
RoomHeartbeat(m) ==
    /\ m \in due
    /\ LET b == syncIntervalTick(TRUE, TRUE, rplayer[m], ContentA, rsince[m])
       IN  /\ \A l \in Links :
                l[1] = m => Len(net[l]) + Len(b.sent) <= MaxQueue
           /\ net' = Broadcast(m, b.sent)
           /\ rsince' = [rsince EXCEPT ![m] = b.since]
    /\ due' = due \ {m}
    /\ UNCHANGED <<rplayer, revents, elapsed, budget, acted, reported>>
    /\ UNCHANGED svars

RoomTick ==
    /\ due = {}
    /\ \A m \in Members : revents[m] = <<>>
    /\ elapsed' = (elapsed + TickMs) % HeartbeatMs
    /\ due' = IF elapsed + TickMs = HeartbeatMs THEN Members ELSE {}
    /\ rsince' = [m \in Members |-> Elapse(rsince[m], TickMs)]
    /\ UNCHANGED <<rplayer, revents, net, budget, acted, reported>>
    /\ UNCHANGED svars

RoomNext ==
    \/ \E m \in Members : RoomUserPlay(m)
    \/ \E m \in Members : RoomUserPause(m)
    \/ \E m \in Members, t \in InboundPositions : RoomUserSeek(m, t)
    \/ \E m \in Members : RoomDispatch(m)
    \/ \E l \in Links : RoomDeliver(l[1], l[2])
    \/ \E m \in Members : RoomHeartbeat(m)
    \/ RoomTick

(* The event loop runs a waiting listener or a due interval, the transport *)
(* delivers.                                                               *)
FairRoomSpec ==
    /\ Init
    /\ [][RoomNext]_vars
    /\ WF_vars(\E m \in Members : RoomDispatch(m))
    /\ WF_vars(\E l \in Links : RoomDeliver(l[1], l[2]))
    /\ WF_vars(\E m \in Members : RoomHeartbeat(m))

----------------------------------------------------------------------------
(* Properties of one member *)

Ops(commands) == {commands[i].op : i \in 1..Len(commands)}

Count(seq, Test(_)) == Cardinality({i \in 1..Len(seq) : Test(seq[i])})

IsSnapshot(m) == m.topic = "play:update"

IsChange(m) == m.topic = "play:change"

\* C1: any two full-snapshot sends of one member are at least DebounceMs
\* apart: a step sends at most one snapshot, and sends one only if
\* DebounceMs or more have passed since the previous snapshot send, whatever
\* attempts it (a play or pause event, the heartbeat, a manual call).
SnapshotsDebounced ==
    [][/\ Count(sent', IsSnapshot) <= 1
       /\ Count(sent', IsSnapshot) = 1 => sinceSnapshot >= DebounceMs]_vars

\* a manual attempt, made in a room with a player less than DebounceMs after
\* a snapshot was sent, that sent nothing
SnapshotSuppressed ==
    /\ act = "ManualBroadcast"
    /\ socket /\ currentRoom /\ artPlayerRef # Null
    /\ sinceSnapshot < DebounceMs
    /\ sent = <<>>

\* C2: handlePlayUpdate on a ready player commands play exactly when the
\* snapshot is playing and the player paused, pause exactly when the snapshot
\* is not playing and the player is playing, at most one of the two, and
\* neither when the snapshot agrees with the player: so it is for every
\* snapshot that may reach the member in any state it can be in.
UpdateCommandsOnDisagreement ==
    artPlayerRef # Null =>
       \A state \in InboundUpdates, ok \in BOOLEAN :
          LET r == handlePlayUpdate(artPlayerRef, state, ok)
          IN  /\ ("play" \in Ops(r.cmds))
                     <=> (state.isPlaying /\ artPlayerRef.paused)
              /\ ("pause" \in Ops(r.cmds))
                     <=> (~state.isPlaying /\ ~artPlayerRef.paused)
              /\ Cardinality({i \in 1..Len(r.cmds) :
                                r.cmds[i].op \in {"play", "pause"}}) <= 1
              /\ state.isPlaying = ~artPlayerRef.paused =>
                    Ops(r.cmds) \subseteq {"seek"}

\* a snapshot that was applied with a play command and started the player
UpdateStartedPlayback ==
    /\ act = "play:update"
    /\ socketListeners
    /\ cmds = <<[op |-> "play"]>>
    /\ ~artPlayerRef.paused

\* C3: handlePlayUpdate on a ready player seeks if and only if the local
\* position and the snapshot's are more than DriftTolerance apart; it then
\* seeks once, to the snapshot's currentTime, whether or not a play or pause
\* was commanded for the same snapshot; otherwise the position stays.
UpdateSeeksBeyondTolerance ==
    artPlayerRef # Null =>
       \A state \in InboundUpdates, ok \in BOOLEAN :
          LET r == handlePlayUpdate(artPlayerRef, state, ok)
              far == Abs(artPlayerRef.currentTime - state.currentTime)
                         > DriftTolerance
              seeks == {i \in 1..Len(r.cmds) : r.cmds[i].op = "seek"}
          IN  /\ far => /\ Cardinality(seeks) = 1
                        /\ \A i \in seeks : r.cmds[i].to = state.currentTime
                        /\ r.player.currentTime = state.currentTime
              /\ ~far => /\ seeks = {}
                         /\ r.player.currentTime = artPlayerRef.currentTime

\* one snapshot that was applied with both a play command and a seek
UpdatePlayedAndSeeked ==
    /\ act = "play:update"
    /\ Len(cmds) = 2
    /\ cmds[1] = [op |-> "play"]
    /\ cmds[2].op = "seek"
    /\ artPlayerRef.currentTime = cmds[2].to

\* C4: whenever a play:change is sent the member has a socket, is in a room
\* and is the owner; a member that is not the owner of a room has no delay
\* pending, so one that lost ownership or left while the delay was pending
\* sends nothing when it would have expired.
ChangeOnlyByOwner ==
    /\ Count(sent, IsChange) > 0 => socket /\ currentRoom /\ isOwner
    /\ ~(socket /\ currentRoom /\ isOwner) => timer = Null

\* the owner's delay expired and the play:change was sent
OwnerSentChange ==
    /\ act = "TimerFire"
    /\ isOwner
    /\ Count(sent, IsChange) = 1

\* C5: a content change of the owner cancels the pending delay and starts a
\* new one of ChangeDelayMs for the new content, so the one play:change that
\* is sent when the delay expires carries the content of the last change,
\* and no play:change carries superseded content.
ChangeDebounced ==
    /\ timer # Null => timer.content = content /\ timer.left <= ChangeDelayMs
    /\ (act = "ContentChange" /\ timer # Null) => timer.left = ChangeDelayMs
    /\ \A i \in 1..Len(sent) :
         IsChange(sent[i]) =>
            /\ Len(sent) = 1
            /\ timer = Null
            /\ sent[i].state
                 = PlayState(content,
                             IF artPlayerRef = Null
                             THEN 0 ELSE artPlayerRef.currentTime,
                             IF artPlayerRef = Null
                             THEN FALSE ELSE ~artPlayerRef.paused)

\* the play:change sent for a change that superseded a pending one
SupersedingChangeSent ==
    /\ act = "TimerFire"
    /\ superseded
    /\ Count(sent, IsChange) = 1
    /\ sent[1].state.url = content.videoUrl

\* C6: a heartbeat tick of a paused player sends nothing; a tick of a
\* playing player sends one full snapshot of the player, unless a snapshot was
\* sent less than DebounceMs before it, which takes a trigger other than the
\* heartbeat, the previous tick being HeartbeatMs back; the next tick is due
\* HeartbeatMs later.
HeartbeatWhilePlaying ==
    act = "IntervalTick" =>
       /\ syncInterval = [left |-> HeartbeatMs]
       /\ artPlayerRef.paused => sent = <<>>
       /\ ~artPlayerRef.paused =>
             \/ sent = <<[topic |-> "play:update",
                          state |-> PlayState(content,
                                              artPlayerRef.currentTime,
                                              TRUE)]>>
             \/ sent = <<>> /\ sinceSnapshot < DebounceMs

\* a heartbeat tick of a playing player that sent the snapshot
HeartbeatSent ==
    /\ act = "IntervalTick"
    /\ ~artPlayerRef.paused
    /\ Count(sent, IsSnapshot) = 1

\* C7: a member that is not in a room has no listener, interval or delay
\* registered, and no step it takes there (player event, inbound message,
\* manual call) sends a message, commands the player or navigates.
NothingOutsideRoom ==
    ~currentRoom =>
       /\ sent = <<>> /\ cmds = <<>> /\ pushed = <<>>
       /\ ~socketListeners /\ ~playerListeners
       /\ syncInterval = Null /\ timer = Null

\* an inbound message that reached a member with a player shortly after it
\* had sent a snapshot and left the room
InboundAfterLeaving ==
    /\ ~currentRoom
    /\ socket
    /\ act \in {"play:update", "play:play", "play:pause", "play:seek",
                "play:change"}
    /\ artPlayerRef # Null
    /\ sinceSnapshot < DebounceMs

\* C10: the discrete commands are idempotent on the player: play:play
\* commands nothing when the player is playing, play:pause nothing when it is
\* paused, play:seek always sets the position to the value received; and a
\* command applied twice (play() having the same outcome) leaves the player
\* as applying it once does.
DiscreteCommandsIdempotent ==
    artPlayerRef # Null =>
       LET p == artPlayerRef
       IN  /\ \A ok \in BOOLEAN :
                LET once == handlePlayCommand(p, ok)
                    twice == handlePlayCommand(once.player, ok)
                IN  /\ ~p.paused => once = Untouched(p)
                    /\ twice.player = once.player
           /\ LET once == handlePauseCommand(p)
                  twice == handlePauseCommand(once.player)
              IN  /\ p.paused => once = Untouched(p)
                  /\ twice.player = once.player
           /\ \A t \in InboundPositions :
                LET once == handleSeekCommand(p, t)
                    twice == handleSeekCommand(once.player, t)
                IN  /\ once.cmds = <<[op |-> "seek", to |-> t]>>
                    /\ once.player.currentTime = t
                    /\ twice.player = once.player

\* a play:play that reached a member whose player was playing and commanded
\* nothing
PlayCommandSkipped ==
    /\ act = "play:play"
    /\ socketListeners
    /\ artPlayerRef # Null
    /\ ~artPlayerRef.paused
    /\ cmds = <<>>

\* C11: a step in which handlePlayUpdate or handlePlayCommand called play()
\* and the player rejected it leaves the player paused, queues no play event,
\* sends nothing, and leaves lastSyncTimeRef, the listeners, the interval and
\* the owner's delay as they were; for every snapshot handlePlayUpdate
\* commands the same seek as when play() is accepted; and a play:play, or a
\* playing snapshot, that arrives afterwards commands play again.
PlayRejected ==
    /\ act \in {"play:update", "play:play"}
    /\ "play" \in Ops(cmds)
    /\ artPlayerRef.paused

RejectionAbsorbed ==
    [][PlayRejected' =>
          /\ sent' = <<>>
          /\ pushed' = <<>>
          /\ artPlayerRef.paused
          /\ events' \in {events, events \o <<"seeked">>}
          /\ UNCHANGED <<sinceLastSync, sinceSnapshot, socketListeners,
                         playerListeners, syncInterval, timer>>
          /\ act' = "play:play" => cmds' = <<[op |-> "play"]>>
          /\ act' = "play:update" =>
                \E state \in InboundUpdates :
                   LET no == handlePlayUpdate(artPlayerRef, state, FALSE)
                   IN  cmds' = no.cmds /\ artPlayerRef' = no.player
          /\ \A state \in InboundUpdates :
                LET no == handlePlayUpdate(artPlayerRef, state, FALSE)
                    yes == handlePlayUpdate(artPlayerRef, state, TRUE)
                IN  /\ no.cmds = yes.cmds
                    /\ no.player.currentTime = yes.player.currentTime
          /\ handlePlayCommand(artPlayerRef', TRUE).cmds = <<[op |-> "play"]>>
          /\ \A state \in InboundUpdates :
                state.isPlaying =>
                   "play" \in Ops(handlePlayUpdate(artPlayerRef', state,
                                                   TRUE).cmds)]_vars

\* a playing snapshot far from the local position that reached a paused
\* player: play() was rejected and the seek was applied
RejectedPlaySeeked ==
    /\ PlayRejected
    /\ act = "play:update"
    /\ Len(cmds) = 2
    /\ cmds[2].op = "seek"
    /\ artPlayerRef.currentTime = cmds[2].to

\* C12 (as amended): a play:update, play:play, play:pause or play:seek that
\* reaches a member in a room whose player reference is null commands
\* nothing, sends nothing, navigates nowhere, queues nothing, and leaves
\* lastSyncTimeRef, the listeners, the interval and the owner's delay as they
\* were; a play:change is not dropped there: it navigates once, and does
\* nothing else.
PlayerTopics == {"play:update", "play:play", "play:pause", "play:seek"}

DroppedWithoutPlayerExceptChange ==
    [][(currentRoom /\ socketListeners /\ artPlayerRef = Null) =>
          /\ act' \in PlayerTopics =>
                /\ cmds' = <<>> /\ sent' = <<>> /\ pushed' = <<>>
                /\ events' = <<>>
                /\ UNCHANGED <<artPlayerRef, sinceLastSync, sinceSnapshot,
                               socketListeners, playerListeners,
                               syncInterval, timer>>
          /\ act' = "play:change" =>
                /\ cmds' = <<>> /\ sent' = <<>> /\ Len(pushed') = 1
                /\ events' = <<>>
                /\ UNCHANGED <<artPlayerRef, sinceLastSync, sinceSnapshot,
                               socketListeners, playerListeners,
                               syncInterval, timer>>]_vars

\* a play:seek that reached a member in a room before its player existed
SeekWithoutPlayer ==
    /\ act = "play:seek"
    /\ currentRoom /\ socketListeners
    /\ artPlayerRef = Null

\* C12 (as stated): every inbound message that reaches a member in a room
\* whose player reference is null is dropped: the step commands nothing,
\* sends nothing and navigates nowhere.
DroppedWithoutPlayer ==
    (/\ act \in PlayerTopics \cup {"play:change"}
     /\ currentRoom /\ socketListeners
     /\ artPlayerRef = Null)
       => cmds = <<>> /\ sent = <<>> /\ pushed = <<>>

\* C13: a play:change is sent only in reaction to a change of videoId,
\* episode, source or url that the member made as owner: the delay whose
\* expiry sent it goes back to such a change, not to joining a room, gaining
\* ownership, a new socket or room context, or a change of metadata alone.
ChangeOnlyOnKeyChange == Count(sent, IsChange) > 0 => keyChange

\* C14 (as amended): a heartbeat tick of a playing player sends a full
\* snapshot exactly when DebounceMs or more have passed since lastSyncTimeRef
\* was set; a tick that comes sooner after a snapshot sends nothing and
\* leaves lastSyncTimeRef alone, and the next tick is HeartbeatMs later.
HeartbeatDebounced ==
    [][(act' = "IntervalTick" /\ ~artPlayerRef.paused) =>
          /\ syncInterval' = [left |-> HeartbeatMs]
          /\ sinceLastSync >= DebounceMs =>
                /\ Count(sent', IsSnapshot) = 1
                /\ Len(sent') = 1
                /\ sinceLastSync' = 0
          /\ sinceLastSync < DebounceMs =>
                /\ sent' = <<>>
                /\ sinceLastSync' = sinceLastSync]_vars

\* a heartbeat tick of a playing player, less than DebounceMs after a
\* snapshot, that sent nothing
HeartbeatSuppressed ==
    /\ act = "IntervalTick"
    /\ ~artPlayerRef.paused
    /\ sinceSnapshot < DebounceMs
    /\ sent = <<>>

\* C14 (as stated): every heartbeat tick of a playing player sends a full
\* snapshot.
HeartbeatAlwaysSends ==
    (act = "IntervalTick" /\ ~artPlayerRef.paused) =>
       Count(sent, IsSnapshot) = 1

\* C15: the reconciliation state does not survive the end of room membership
\* or of the player: when the member has just joined a room, or its player
\* has just been created, lastSyncTimeRef is at its initial value, DebounceMs
\* or more in the past, so that the first snapshot attempt is sent.
CleanOnReentry ==
    act \in {"JoinRoom", "PlayerCreate"} => sinceLastSync >= DebounceMs

\* C16: lastSyncTimeRef is set only by a step that sends a snapshot: every
\* other step leaves it alone (the passing of time only adds to its age), so
\* its age is always the time since the last snapshot was sent, a suppressed
\* attempt does not extend the window, and an attempt made by a member in a
\* room with a player DebounceMs or more after the last snapshot is sent.
SnapshotAttempt ==
    \/ act' = "ManualBroadcast"
    \/ act' = "IntervalTick" /\ ~artPlayerRef.paused
    \/ act' = "play" /\ playerListeners /\ ~artPlayerRef.paused
    \/ act' = "pause" /\ playerListeners /\ artPlayerRef.paused

ClockSetOnlyOnSend ==
    [][/\ sinceLastSync' = sinceSnapshot'
       /\ act' = "Tick" => sinceLastSync' >= sinceLastSync
       /\ act' # "Tick" =>
             sinceLastSync' = IF Count(sent', IsSnapshot) > 0
                              THEN 0
                              ELSE sinceLastSync
       /\ (/\ SnapshotAttempt
           /\ socket /\ currentRoom /\ artPlayerRef # Null
           /\ sinceSnapshot >= DebounceMs)
             => Count(sent', IsSnapshot) = 1]_vars

\* an attempt of a member in a room with a player, made TickMs after a
\* snapshot, that sent nothing and left the age of lastSyncTimeRef at TickMs
SuppressedAttemptKeptClock ==
    /\ act = "ManualBroadcast"
    /\ socket /\ currentRoom /\ artPlayerRef # Null
    /\ sent = <<>>
    /\ sinceLastSync = TickMs
    /\ sinceSnapshot = TickMs

\* C17: the step that dispatches a play event sends something only if the
\* listeners are registered and the player is playing at that moment, the
\* step for a pause event only if the player is paused; it then sends the
\* play or pause notification first, followed by at most the one full
\* snapshot of the player; an event that contradicts the player's state
\* sends nothing at all.
NotifiedThenSnapshot(topic) ==
    /\ Len(sent) \in {1, 2}
    /\ sent[1] = [topic |-> topic]
    /\ Len(sent) = 2 =>
          sent[2] = [topic |-> "play:update",
                     state |-> PlayState(content, artPlayerRef.currentTime,
                                         ~artPlayerRef.paused)]
    /\ Len(sent) = 1 => sinceSnapshot < DebounceMs

EventsConfirmed ==
    /\ act = "play" =>
          IF playerListeners /\ artPlayerRef # Null /\ ~artPlayerRef.paused
          THEN NotifiedThenSnapshot("play:play")
          ELSE sent = <<>>
    /\ act = "pause" =>
          IF playerListeners /\ artPlayerRef # Null /\ artPlayerRef.paused
          THEN NotifiedThenSnapshot("play:pause")
          ELSE sent = <<>>

\* a play event dispatched to the listener after the player had been paused
\* again: nothing was sent
StalePlayIgnored ==
    /\ act = "play"
    /\ playerListeners
    /\ artPlayerRef # Null
    /\ artPlayerRef.paused
    /\ sent = <<>>

\* C18: the step that dispatches a seeked event to the registered listener
\* of a member with a player sends exactly one play:seek carrying the
\* player's position and no snapshot, however recently a snapshot was sent,
\* and leaves lastSyncTimeRef alone.
SeekReportedUndebounced ==
    [][act' = "seeked" =>
          /\ IF playerListeners /\ artPlayerRef # Null
             THEN sent' = <<[topic |-> "play:seek",
                             currentTime |-> artPlayerRef.currentTime]>>
             ELSE sent' = <<>>
          /\ UNCHANGED <<sinceLastSync, sinceSnapshot, artPlayerRef>>]_vars

\* a seek reported less than DebounceMs after a snapshot was sent
SeekSentInsideWindow ==
    /\ act = "seeked"
    /\ Len(sent) = 1
    /\ sent[1].topic = "play:seek"
    /\ sinceSnapshot < DebounceMs

\* C19: every full snapshot a member sends is the complete PlayState of its
\* player and content as they are when it is sent: isPlaying is the
\* complement of paused, currentTime the player's position, and url, videoId,
\* source, episode and metadata those of the content bound to the member.
PlayStateFields ==
    {"type", "url", "currentTime", "isPlaying", "videoId", "videoName",
     "videoYear", "searchTitle", "episode", "source"}

SnapshotReflectsPlayer ==
    \A i \in 1..Len(sent) :
       IsSnapshot(sent[i]) =>
          /\ artPlayerRef # Null
          /\ DOMAIN sent[i].state = PlayStateFields
          /\ sent[i].state.isPlaying = ~artPlayerRef.paused
          /\ sent[i].state.currentTime = artPlayerRef.currentTime
          /\ sent[i].state = PlayState(content, artPlayerRef.currentTime,
                                       ~artPlayerRef.paused)

\* the snapshot of a paused player, away from the start, on content changed
\* since the hook was set up, sent for its pause event
PausedSnapshotSent ==
    /\ act = "pause"
    /\ Count(sent, IsSnapshot) = 1
    /\ artPlayerRef.paused
    /\ artPlayerRef.currentTime > 0
    /\ content = ContentB

\* C20: the play and pause notifications are not debounced: the step that
\* dispatches a play event to the registered listeners of a playing player,
\* or a pause event to those of a paused player, sends exactly one
\* notification of that kind, whether or not the snapshot goes with it; and
\* once no event is waiting, the last notification the registered listeners
\* sent tells the player's state.
IsNotification(m) == m.topic \in {"play:play", "play:pause"}

NotificationsUndebounced ==
    /\ (/\ act = "play"
        /\ playerListeners /\ artPlayerRef # Null /\ ~artPlayerRef.paused)
          => /\ Count(sent, IsNotification) = 1
             /\ sent[1] = [topic |-> "play:play"]
             /\ lastNotified = "play"
    /\ (/\ act = "pause"
        /\ playerListeners /\ artPlayerRef # Null /\ artPlayerRef.paused)
          => /\ Count(sent, IsNotification) = 1
             /\ sent[1] = [topic |-> "play:pause"]
             /\ lastNotified = "pause"
    /\ (playerListeners /\ events = <<>> /\ lastNotified # "none")
          => lastNotified = IF artPlayerRef.paused THEN "pause" ELSE "play"

\* a pause, less than DebounceMs after a snapshot, that was the last
\* transition: the notification went out without the snapshot
PauseNotifiedSnapshotSuppressed ==
    /\ act = "pause"
    /\ sent = <<[topic |-> "play:pause"]>>
    /\ sinceSnapshot < DebounceMs
    /\ events = <<>>
    /\ artPlayerRef.paused
    /\ lastNotified = "pause"

----------------------------------------------------------------------------
(* Properties of a room *)

\* C8: a player event that applying an inbound message caused is not
\* reported to the room: a member whose user has not acted on the player has
\* reported no player event.
NoEcho == reported \subseteq acted

\* C9: once the users stop acting the room converges: as time keeps passing,
\* eventually, and from then on, no play, pause or seek command is in flight
\* and all members are playing or all are paused.
IsDiscrete(m) == m.topic \in {"play:play", "play:pause", "play:seek"}

RoomSettled ==
    /\ \A l \in Links : Count(net[l], IsDiscrete) = 0
    /\ \A m, n \in Members : rplayer[m].paused = rplayer[n].paused

RoomConverges == []<><<RoomTick>>_vars => <>[]RoomSettled

====
